---------------------------- MODULE Spec2Model ----------------------------
(***************************************************************************)
(* A model of the border-checkpoint normalisation scripts:                 *)
(*   scripts/extract-ru-borders.py    (transliteration, record             *)
(*                                     normalisation, grouping)            *)
(*   scripts/transliterate_geojson.py (free-text status extraction)        *)
(*                                                                         *)
(* Text.  A Python str is a sequence of characters.  A Latin, digit,       *)
(* punctuation or whitespace character is the one-character string itself  *)
(* ("E", " ", "(").  The module is ASCII, so a Cyrillic letter is the      *)
(* token cyr_<name> (small) or CYR_<NAME> (capital), <name> being the      *)
(* letter's Unicode name: cyr_ie is U+0435, CYR_E is U+042D, cyr_soft is   *)
(* U+044C, and so on.                                                      *)
(*                                                                         *)
(* Optional values.  Python's None is the empty tuple, and a value v that  *)
(* is present is the one-element tuple <<v>>.  A dict is a function whose  *)
(* DOMAIN is the set of its keys, so a missing key is a missing element of *)
(* the DOMAIN.                                                             *)
(*                                                                         *)
(* Objects.  Every dict the normalisation loop builds is an object: heap   *)
(* maps the object's identity to its fields, and processed_checkpoints and *)
(* the buckets of region_map hold identities, as the Python lists hold     *)
(* references.  An object's identity is the position in the document of the*)
(* raw checkpoint whose loop iteration allocated it.                       *)
(***************************************************************************)
EXTENDS Integers, Sequences, FiniteSets, TLC

VARIABLES
    data,                   \* the checkpoints of the input document, in loop order
    pc,                     \* position of the script / of the function under check
    i,                      \* number of checkpoints the normalisation loop has done
    heap,                   \* object identity -> the new_checkpoint dict
    processed_checkpoints,  \* the flat list (identities)
    region_map,             \* region_id -> list of identities
    g,                      \* number of records the grouping loop has done
    files,                  \* the names of the files written, in order
    text,                   \* argument of cyrillic_to_latin
    transliterated,         \* its return value
    description,            \* argument of extract_status
    status_value            \* its return value

vars == <<data, pc, i, heap, processed_checkpoints, region_map, g, files,
          text, transliterated, description, status_value>>

---------------------------------------------------------------------------
(* Optional values and Python truthiness *)

None == <<>>

Some(v) == <<v>>

\* bool(x) for x a str or None: None and the empty string are false
Truthy(x) == x # None /\ x[1] # <<>>

\* the ASCII whitespace characters of the regular expression class \s
Whitespace == {" ", "\t", "\n", "\r", "\f"}

IsSpace(c) == c \in Whitespace

RECURSIVE Flatten(_)
\* "".join(parts)
Flatten(parts) ==
    IF parts = <<>> THEN <<>> ELSE Head(parts) \o Flatten(Tail(parts))

---------------------------------------------------------------------------
(* extract-ru-borders.py: the transliteration table and cyrillic_to_latin *)

TRANS_MAP ==
    [ cyr_a |-> <<"a">>, cyr_be |-> <<"b">>, cyr_ve |-> <<"v">>,
      cyr_ghe |-> <<"g">>, cyr_de |-> <<"d">>, cyr_ie |-> <<"e">>,
      cyr_io |-> <<"y", "o">>,
      cyr_zhe |-> <<"z", "h">>, cyr_ze |-> <<"z">>, cyr_i |-> <<"i">>,
      cyr_short_i |-> <<"y">>, cyr_ka |-> <<"k">>, cyr_el |-> <<"l">>,
      cyr_em |-> <<"m">>,
      cyr_en |-> <<"n">>, cyr_o |-> <<"o">>, cyr_pe |-> <<"p">>,
      cyr_er |-> <<"r">>, cyr_es |-> <<"s">>, cyr_te |-> <<"t">>,
      cyr_u |-> <<"u">>,
      cyr_ef |-> <<"f">>, cyr_ha |-> <<"k", "h">>, cyr_tse |-> <<"t", "s">>,
      cyr_che |-> <<"c", "h">>, cyr_sha |-> <<"s", "h">>,
      cyr_shcha |-> <<"s", "h", "c", "h">>,
      cyr_hard |-> <<>>, cyr_yeru |-> <<"y">>, cyr_soft |-> <<>>,
      cyr_e |-> <<"e">>, cyr_yu |-> <<"y", "u">>, cyr_ya |-> <<"y", "a">>,

      CYR_A |-> <<"A">>, CYR_BE |-> <<"B">>, CYR_VE |-> <<"V">>,
      CYR_GHE |-> <<"G">>, CYR_DE |-> <<"D">>, CYR_IE |-> <<"E">>,
      CYR_IO |-> <<"Y", "o">>,
      CYR_ZHE |-> <<"Z", "h">>, CYR_ZE |-> <<"Z">>, CYR_I |-> <<"I">>,
      CYR_SHORT_I |-> <<"Y">>, CYR_KA |-> <<"K">>, CYR_EL |-> <<"L">>,
      CYR_EM |-> <<"M">>,
      CYR_EN |-> <<"N">>, CYR_O |-> <<"O">>, CYR_PE |-> <<"P">>,
      CYR_ER |-> <<"R">>, CYR_ES |-> <<"S">>, CYR_TE |-> <<"T">>,
      CYR_U |-> <<"U">>,
      CYR_EF |-> <<"F">>, CYR_HA |-> <<"K", "h">>, CYR_TSE |-> <<"T", "s">>,
      CYR_CHE |-> <<"C", "h">>, CYR_SHA |-> <<"S", "h">>,
      CYR_SHCHA |-> <<"S", "h", "c", "h">>,
      CYR_HARD |-> <<>>, CYR_YERU |-> <<"Y">>, CYR_SOFT |-> <<>>,
      CYR_E |-> <<"E">>, CYR_YU |-> <<"Y", "u">>, CYR_YA |-> <<"Y", "a">> ]

\* TRANS_MAP.get(char, char)
TransChar(char) ==
    IF char \in DOMAIN TRANS_MAP THEN TRANS_MAP[char] ELSE <<char>>

\* text.replace('Ъ', '').replace('Ь', '').replace('ъ', '').replace('ь', '')
RemoveSigns(s) ==
    SelectSeq(s, LAMBDA c : c \notin {"CYR_HARD", "CYR_SOFT", "cyr_hard", "cyr_soft"})

\* s[k:].startswith(pat)
MatchAt(s, k, pat) ==
    /\ k + Len(pat) - 1 <= Len(s)
    /\ \A n \in 1..Len(pat) : s[k + n - 1] = pat[n]

RECURSIVE ReSubFrom(_, _, _, _)
\* re.sub(r'(^|\s)<pat>', r'\1<repl>', s), from position k of s on: every
\* occurrence of pat at the start of the string or right after a whitespace
\* character becomes repl, the whitespace character kept
ReSubFrom(s, k, pat, repl) ==
    IF k > Len(s) THEN <<>>
    ELSE IF MatchAt(s, k, pat) /\ (k = 1 \/ IsSpace(s[k - 1]))
         THEN repl \o ReSubFrom(s, k + Len(pat), pat, repl)
         ELSE <<s[k]>> \o ReSubFrom(s, k + 1, pat, repl)

ReSubWordStart(s, pat, repl) == ReSubFrom(s, 1, pat, repl)

cyrillic_to_latin(t) ==
    LET stripped == RemoveSigns(t)
        result   == [k \in 1..Len(stripped) |-> TransChar(stripped[k])]
        joined   == Flatten(result)
        s1       == ReSubWordStart(joined, <<"E">>, <<"Y", "e">>)
        s2       == ReSubWordStart(s1, <<"e">>, <<"y", "e">>)
        s3       == ReSubWordStart(s2, <<"Y", "o">>, <<"Y", "o">>)
        s4       == ReSubWordStart(s3, <<"y", "o">>, <<"y", "o">>)
    IN  s4

---------------------------------------------------------------------------
(* cyrillic_to_latin as a specification: any bounded text, one call *)

MaxLen == 3

TextAlphabet ==
    {"CYR_IE", "cyr_ie", "CYR_E", "cyr_e", "cyr_soft", "CYR_HARD",
     "cyr_sha", "CYR_IO", "E", "e", "x", "7", "(", " ", "\n"}

BoundedSeq(S, n) == UNION {[1..m -> S] : m \in 0..n}

IdleTranslit == text = None /\ transliterated = None

IdleStatus == description = [kind |-> "NoneType", value |-> <<>>] /\ status_value = None

IdlePipeline ==
    /\ data = <<>>
    /\ i = 0
    /\ heap = <<>>
    /\ processed_checkpoints = <<>>
    /\ region_map = <<>>
    /\ g = 0
    /\ files = <<>>

InitTranslit ==
    /\ pc = "call"
    /\ text \in {Some(t) : t \in BoundedSeq(TextAlphabet, MaxLen)}
    /\ transliterated = None
    /\ IdleStatus
    /\ IdlePipeline

Transliterate ==
    /\ pc = "call"
    /\ transliterated' = Some(cyrillic_to_latin(text[1]))
    /\ pc' = "returned"
    /\ UNCHANGED <<data, i, heap, processed_checkpoints, region_map, g, files,
                   text, description, status_value>>

NextTranslit == Transliterate

SpecTranslit == InitTranslit /\ [][NextTranslit]_vars


\* the table value of a letter, and its softened form when it is E or e
Renderings(char) ==
    LET plain == TRANS_MAP[char]
    IN  {plain} \cup (IF plain = <<"E">> THEN {<<"Y", "e">>} ELSE {})
                \cup (IF plain = <<"e">> THEN {<<"y", "e">>} ELSE {})

\* out is the concatenation, position by position, of the character itself
\* for a character outside TRANS_MAP and of a rendering of the letter for a key
RECURSIVE VerbatimImage(_, _)
VerbatimImage(in, out) ==
    IF in = <<>> THEN out = <<>>
    ELSE IF Head(in) \in DOMAIN TRANS_MAP
         THEN \E r \in Renderings(Head(in)) :
                 /\ MatchAt(out, 1, r)
                 /\ VerbatimImage(Tail(in), SubSeq(out, Len(r) + 1, Len(out)))
         ELSE /\ out # <<>>
              /\ Head(out) = Head(in)
              /\ VerbatimImage(Tail(in), Tail(out))

\* C8: whatever the text, every character that is not a key of TRANS_MAP
\* (digit, punctuation, whitespace, Latin letter) is in the output verbatim
\* at its place, nothing inserted before or after it: the output is the
\* concatenation, position by position, of the character itself for such a
\* character and of a rendering of the letter for a key of the table.
C8_UnmappedPassThrough ==
    pc = "returned" => VerbatimImage(text[1], transliterated[1])

\* the rendering of position k of t under the word-start rule for IE alone
IeRendering(t, k) ==
    LET wordStart == k = 1 \/ IsSpace(t[k - 1])
    IN  IF t[k] = "CYR_IE" /\ wordStart THEN <<"Y", "e">>
        ELSE IF t[k] = "cyr_ie" /\ wordStart THEN <<"y", "e">>
        ELSE TransChar(t[k])

\* C9: the letter IE is "Ye"/"ye" exactly at the start of the text or right
\* after a whitespace character and "E"/"e" elsewhere, and every other
\* Cyrillic letter has its table value at every position.  Stated for the
\* texts made of Cyrillic letters and whitespace only.
C9_OnlyIeIsSoftened ==
    (/\ pc = "returned"
     /\ \A k \in 1..Len(text[1]) : text[1][k] \in DOMAIN TRANS_MAP \cup Whitespace)
    => transliterated[1] = Flatten([k \in 1..Len(text[1]) |-> IeRendering(text[1], k)])

---------------------------------------------------------------------------
(* transliterate_geojson.py: extract_status *)

\* 'Статус:', the marker of the regular expression
StatusMarker == <<"CYR_ES", "cyr_te", "cyr_a", "cyr_te", "cyr_u", "cyr_es", ":">>

\* 'двухсторонний'
bilateral_lower ==
    <<"cyr_de", "cyr_ve", "cyr_u", "cyr_ha", "cyr_es", "cyr_te", "cyr_o",
      "cyr_er", "cyr_o", "cyr_en", "cyr_en", "cyr_i", "cyr_short_i">>

\* 'Двухсторонний'
bilateral_capitalized == <<"CYR_DE">> \o Tail(bilateral_lower)

\* 'многосторонний'
multilateral_lower ==
    <<"cyr_em", "cyr_en", "cyr_o", "cyr_ghe", "cyr_o", "cyr_es", "cyr_te",
      "cyr_o", "cyr_er", "cyr_o", "cyr_en", "cyr_en", "cyr_i", "cyr_short_i">>

\* 'Многосторонний'
multilateral_capitalized == <<"CYR_EM">> \o Tail(multilateral_lower)

\* sub in s
Contains(s, sub) == \E k \in 1..(Len(s) + 1) : MatchAt(s, k, sub)

RECURSIVE LStrip(_)
LStrip(s) == IF s # <<>> /\ IsSpace(Head(s)) THEN LStrip(Tail(s)) ELSE s

RECURSIVE RStrip(_)
RStrip(s) ==
    IF s # <<>> /\ IsSpace(s[Len(s)]) THEN RStrip(SubSeq(s, 1, Len(s) - 1)) ELSE s

\* s.strip()
Strip(s) == RStrip(LStrip(s))

\* where a greedy run of characters of class from position k of s ends: the
\* first position >= k whose character is not in class, Len(s) + 1 if none
RECURSIVE SkipIn(_, _, _)
SkipIn(s, k, class) ==
    IF k <= Len(s) /\ s[k] \in class THEN SkipIn(s, k + 1, class) ELSE k

\* the same for the negated class [^...]
RECURSIVE SkipNotIn(_, _, _)
SkipNotIn(s, k, class) ==
    IF k <= Len(s) /\ s[k] \notin class THEN SkipNotIn(s, k + 1, class) ELSE k

\* The place where the group ([^\n<]+) starts when \s*([^\n<]+) is matched at
\* position m of s, 0 when it cannot match: \s* takes the whole whitespace run
\* and gives characters back one at a time until the group has a first
\* character that is neither a line break nor "<".
GroupStart(s, m) ==
    LET w     == SkipIn(s, m, Whitespace)
        tries == {p \in m..w : p <= Len(s) /\ s[p] \notin {"\n", "<"}}
    IN  IF tries = {} THEN 0 ELSE CHOOSE p \in tries : \A q \in tries : q <= p

\* re.search(r'Статус:\s*([^\n<]+)', s): the text of group 1 of the leftmost
\* match, None when nothing matches
StatusSearch(s) ==
    LET starts == {k \in 1..Len(s) :
                      /\ MatchAt(s, k, StatusMarker)
                      /\ GroupStart(s, k + Len(StatusMarker)) # 0}
    IN  IF starts = {} THEN None
        ELSE LET k == CHOOSE k \in starts : \A q \in starts : k <= q
                 p == GroupStart(s, k + Len(StatusMarker))
                 e == SkipNotIn(s, p, {"\n", "<"})
             IN  Some(SubSeq(s, p, e - 1))

\* the value of a description is its characters when kind is "str"
extract_status(d) ==
    IF d.kind # "str" THEN None
    ELSE LET status_match == StatusSearch(d.value)
         IN  IF status_match # None
             THEN LET status_text == Strip(status_match[1])
                  IN  IF \/ Contains(status_text, bilateral_capitalized)
                         \/ Contains(status_text, bilateral_lower)
                      THEN Some(1)
                      ELSE IF \/ Contains(status_text, multilateral_capitalized)
                              \/ Contains(status_text, multilateral_lower)
                           THEN Some(2)
                           ELSE None
             ELSE None

---------------------------------------------------------------------------
(* extract_status as a specification: any bounded description, one call *)

MaxChunks == 4

\* 'ДВУХСТОРОННИЙ'
bilateral_upper ==
    <<"CYR_DE", "CYR_VE", "CYR_U", "CYR_HA", "CYR_ES", "CYR_TE", "CYR_O",
      "CYR_ER", "CYR_O", "CYR_EN", "CYR_EN", "CYR_I", "CYR_SHORT_I">>

\* 'МНОГОсторонний'
multilateral_mixed ==
    <<"CYR_EM", "CYR_EN", "CYR_O", "CYR_GHE", "CYR_O">>
    \o SubSeq(multilateral_lower, 6, Len(multilateral_lower))

\* the pieces a description is made of
Chunks ==
    {StatusMarker, bilateral_lower, bilateral_capitalized, bilateral_upper,
     multilateral_lower, multilateral_mixed, <<" ">>, <<"\n">>, <<"<">>, <<"x">>}

Descriptions ==
    {[kind |-> "str", value |-> Flatten(cs)] : cs \in BoundedSeq(Chunks, MaxChunks)}
    \cup {[kind |-> "NoneType", value |-> <<>>], [kind |-> "int", value |-> <<>>]}

InitStatus ==
    /\ pc = "call"
    /\ description \in Descriptions
    /\ status_value = None
    /\ IdleTranslit
    /\ IdlePipeline

ExtractStatus ==
    /\ pc = "call"
    /\ status_value' = extract_status(description)
    /\ pc' = "returned"
    /\ UNCHANGED <<data, i, heap, processed_checkpoints, region_map, g, files,
                   text, transliterated, description>>

NextStatus == ExtractStatus

SpecStatus == InitStatus /\ [][NextStatus]_vars

\* the small letter of a capital Cyrillic letter
SmallOf ==
    [
      CYR_A |-> "cyr_a", CYR_BE |-> "cyr_be", CYR_VE |-> "cyr_ve",
      CYR_GHE |-> "cyr_ghe", CYR_DE |-> "cyr_de", CYR_IE |-> "cyr_ie",
      CYR_IO |-> "cyr_io", CYR_ZHE |-> "cyr_zhe", CYR_ZE |-> "cyr_ze",
      CYR_I |-> "cyr_i", CYR_SHORT_I |-> "cyr_short_i", CYR_KA |-> "cyr_ka",
      CYR_EL |-> "cyr_el", CYR_EM |-> "cyr_em", CYR_EN |-> "cyr_en",
      CYR_O |-> "cyr_o", CYR_PE |-> "cyr_pe", CYR_ER |-> "cyr_er",
      CYR_ES |-> "cyr_es", CYR_TE |-> "cyr_te", CYR_U |-> "cyr_u",
      CYR_EF |-> "cyr_ef", CYR_HA |-> "cyr_ha", CYR_TSE |-> "cyr_tse",
      CYR_CHE |-> "cyr_che", CYR_SHA |-> "cyr_sha", CYR_SHCHA |-> "cyr_shcha",
      CYR_HARD |-> "cyr_hard", CYR_YERU |-> "cyr_yeru", CYR_SOFT |-> "cyr_soft",
      CYR_E |-> "cyr_e", CYR_YU |-> "cyr_yu", CYR_YA |-> "cyr_ya" ]

LowerChar(c) == IF c \in DOMAIN SmallOf THEN SmallOf[c] ELSE c

\* s.lower()
Lower(s) == [k \in 1..Len(s) |-> LowerChar(s[k])]

\* the classification by the first marker's segment, letter case ignored
ClaimedStatus(d) ==
    IF d.kind # "str" THEN None
    ELSE LET s      == d.value
             starts == {k \in 1..Len(s) : MatchAt(s, k, StatusMarker)}
         IN  IF starts = {} THEN None
             ELSE LET k   == CHOOSE k \in starts : \A q \in starts : k <= q
                      m   == k + Len(StatusMarker)
                      seg == Lower(SubSeq(s, m, SkipNotIn(s, m, {"\n", "<"}) - 1))
                  IN  IF Contains(seg, bilateral_lower) THEN Some(1)
                      ELSE IF Contains(seg, multilateral_lower) THEN Some(2)
                      ELSE None

\* C10: the classification the claim describes.  Not a string: null.  A
\* string: the text after the first marker up to the next line break or "<",
\* compared without regard to letter case: 1 when it contains the bilateral
\* term, otherwise 2 when it contains the multilateral term, otherwise null
\* (null too when there is no marker).
C10_StatusAsClaimed ==
    pc = "returned" => status_value = ClaimedStatus(description)

---------------------------------------------------------------------------
(* extract-ru-borders.py: the record normaliser *)

EmptyDict == <<>>

\* d.get(key) of a leaf: the value, or None
Get(d, key) == IF key \in DOMAIN d THEN Some(d[key]) ELSE None

\* d.get(key, {}) of a nested dict
GetDict(d, key) == IF key \in DOMAIN d THEN d[key] ELSE EmptyDict

\* where the match of \s*\(.*?\)\s* that starts at position k of s ends (the
\* position after it), 0 when there is no match at k: the whitespace run, an
\* opening parenthesis, the shortest text without a line break up to a
\* closing parenthesis, the whitespace run after it
ParenMatchEnd(s, k) ==
    LET w == SkipIn(s, k, Whitespace)
        c == SkipNotIn(s, w + 1, {")", "\n"})
    IN  IF w <= Len(s) /\ s[w] = "(" /\ c <= Len(s) /\ s[c] = ")"
        THEN SkipIn(s, c + 1, Whitespace)
        ELSE 0

RECURSIVE ReSubParenFrom(_, _)
\* re.sub(r'\s*\(.*?\)\s*', '', s), from position k of s on
ReSubParenFrom(s, k) ==
    IF k > Len(s) THEN <<>>
    ELSE IF ParenMatchEnd(s, k) # 0
         THEN ReSubParenFrom(s, ParenMatchEnd(s, k))
         ELSE <<s[k]>> \o ReSubParenFrom(s, k + 1)

\* lines 64-67: name_en from full_name
NameEn(full_name) ==
    IF Contains(full_name, <<"(">>)
    THEN Strip(ReSubParenFrom(full_name, 1))
    ELSE full_name

\* lines 61-70: the name fields, from title_ru
NameFields(title_ru) ==
    IF Truthy(title_ru)
    THEN LET full_name == cyrillic_to_latin(title_ru[1])
             name_en   == NameEn(full_name)
         IN  [name_ru |-> title_ru, full_name |-> Some(full_name),
              name_en |-> Some(name_en), name |-> Some(name_en)]
    ELSE [name |-> None]

\* lines 74-78
NewStatus(status_en) ==
    IF status_en = Some("Bilateral") THEN Some(1)
    ELSE IF status_en = Some("Multilateral") THEN Some(2)
    ELSE None

\* lines 84-86: the country key is set only for a foreign_country that is
\* true (present and not empty), to its iso_code or None
CountryField(checkpoint) ==
    LET other_country == Get(checkpoint, "foreign_country")
    IN  IF other_country # None /\ other_country[1] # EmptyDict
        THEN [country |-> Get(other_country[1], "iso_code")]
        ELSE EmptyDict

\* f"{name_en} / {foreign_name}"
Composite(name_en, foreign_name) == name_en \o <<" ", "/", " ">> \o foreign_name

\* lines 89-93, on the dict built so far; raised says that line 92 raised
\* KeyError: it reads new_checkpoint['name_en'], a key lines 61-70 set only
\* for a true title_ru
ForeignFields(checkpoint, sofar) ==
    LET foreign_checkpoint_ru == Get(GetDict(checkpoint, "foreign_checkpoint"), "ru")
        with_ru == sofar @@ [foreign_checkpoint_ru |-> foreign_checkpoint_ru]
    IN  IF ~Truthy(foreign_checkpoint_ru)
        THEN [raised |-> FALSE, new_checkpoint |-> with_ru]
        ELSE LET foreign_name == cyrillic_to_latin(foreign_checkpoint_ru[1])
                 with_name    == with_ru @@ [foreign_name |-> Some(foreign_name)]
             IN  IF "name_en" \notin DOMAIN sofar
                 THEN [raised |-> TRUE, new_checkpoint |-> with_name]
                 ELSE IF sofar.name_en[1] # <<>> /\ foreign_name # <<>>
                      THEN [raised |-> FALSE,
                            new_checkpoint |->
                                [with_name EXCEPT !.name =
                                    Some(Composite(sofar.name_en[1], foreign_name))]]
                      ELSE [raised |-> FALSE, new_checkpoint |-> with_name]

\* lines 52-54
CheckpointTypeEn(checkpoint) ==
    Get(GetDict(GetDict(checkpoint, "checkpoint_type"), "title"), "en")

StatusEn(checkpoint) == Get(GetDict(GetDict(checkpoint, "status"), "title"), "en")

TitleRu(checkpoint) == Get(GetDict(checkpoint, "title"), "ru")

\* line 57
IsAutomobile(checkpoint) ==
    CheckpointTypeEn(checkpoint) = Some("Automobile checkpoint")

\* line 95 with != False for == True
Admitted_UnlessFalse(checkpoint) == Get(checkpoint, "condition") # Some(FALSE)

\* line 95
Admitted(checkpoint) == Get(checkpoint, "condition") = Some(TRUE)

\* lines 58-93: the body of the filter's branch for one checkpoint
BuildCheckpoint(checkpoint) ==
    LET sofar == NameFields(TitleRu(checkpoint))
                 @@ [status |-> NewStatus(StatusEn(checkpoint)),
                     id |-> Get(checkpoint, "id")]
                 @@ CountryField(checkpoint)
                 @@ [latitude |-> Get(checkpoint, "latitude"),
                     longitude |-> Get(checkpoint, "longitude")]
    IN  ForeignFields(checkpoint, sofar)

---------------------------------------------------------------------------
(* extract-ru-borders.py: the script, one step per loop iteration *)

\* region_map is a dict, which keeps its keys in insertion order: a sequence
\* of entries [key, value], value the bucket
Keys(map) == {map[k].key : k \in 1..Len(map)}

Bucket(map, key) ==
    LET k == CHOOSE k \in 1..Len(map) : map[k].key = key IN map[k].value

\* lines 102-104 with the bucket assigned instead of appended to
BucketAppend_Overwrite(map, region_id, cp) ==
    LET created == IF region_id \notin Keys(map)
                   THEN Append(map, [key |-> region_id, value |-> <<>>])
                   ELSE map
    IN  [k \in 1..Len(created) |->
            IF created[k].key = region_id
            THEN [created[k] EXCEPT !.value = <<cp>>]
            ELSE created[k]]

\* lines 102-104 with insert(0, cp) for append(cp)
BucketAppend_Prepend(map, region_id, cp) ==
    LET created == IF region_id \notin Keys(map)
                   THEN Append(map, [key |-> region_id, value |-> <<>>])
                   ELSE map
    IN  [k \in 1..Len(created) |->
            IF created[k].key = region_id
            THEN [created[k] EXCEPT !.value = <<cp>> \o @]
            ELSE created[k]]

\* lines 102-104
BucketAppend(map, region_id, cp) ==
    LET created == IF region_id \notin Keys(map)
                   THEN Append(map, [key |-> region_id, value |-> <<>>])
                   ELSE map
    IN  [k \in 1..Len(created) |->
            IF created[k].key = region_id
            THEN [created[k] EXCEPT !.value = Append(@, cp)]
            ELSE created[k]]

\* line 101: cp.get('country', 'unknown')
RegionId(cp) == IF "country" \in DOMAIN cp THEN cp.country ELSE Some("unknown")

\* str(region_id) inside the f-string of line 109
FileName(region_id) ==
    IF region_id = None THEN "checkpoints_None.json"
    ELSE "checkpoints_" \o region_id[1] \o ".json"

\* lines 51-96, one iteration: checkpoint i + 1 of the document
NormalizeCheckpoint ==
    /\ pc = "normalize"
    /\ i < Len(data)
    /\ LET checkpoint == data[i + 1]
           built      == BuildCheckpoint(checkpoint)
       IN  IF ~IsAutomobile(checkpoint)
           THEN /\ i' = i + 1
                /\ UNCHANGED <<pc, heap, processed_checkpoints>>
           ELSE IF built.raised
                THEN /\ pc' = "KeyError"
                     /\ UNCHANGED <<i, heap, processed_checkpoints>>
                ELSE IF Admitted(checkpoint)
                     THEN /\ i' = i + 1
                          /\ heap' = heap @@ ((i + 1) :> built.new_checkpoint)
                          /\ processed_checkpoints' = Append(processed_checkpoints, i + 1)
                          /\ pc' = pc
                     ELSE /\ i' = i + 1
                          /\ UNCHANGED <<pc, heap, processed_checkpoints>>
    /\ UNCHANGED <<data, region_map, g, files, text, transliterated,
                   description, status_value>>

\* the loops of lines 45-51 are exhausted; line 99
StartGrouping ==
    /\ pc = "normalize"
    /\ i = Len(data)
    /\ pc' = "group"
    /\ UNCHANGED <<data, i, heap, processed_checkpoints, region_map, g, files,
                   text, transliterated, description, status_value>>

\* lines 100-104, one iteration
GroupCheckpoint ==
    /\ pc = "group"
    /\ g < Len(processed_checkpoints)
    /\ LET cp == processed_checkpoints[g + 1]
       IN  region_map' = BucketAppend(region_map, RegionId(heap[cp]), cp)
    /\ g' = g + 1
    /\ UNCHANGED <<data, pc, i, heap, processed_checkpoints, files,
                   text, transliterated, description, status_value>>

StartWriting ==
    /\ pc = "group"
    /\ g = Len(processed_checkpoints)
    /\ pc' = "write"
    /\ UNCHANGED <<data, i, heap, processed_checkpoints, region_map, g, files,
                   text, transliterated, description, status_value>>

\* lines 106-110, one iteration: the file of the next key of region_map
WriteRegion ==
    /\ pc = "write"
    /\ Len(files) < Len(region_map)
    /\ files' = Append(files, FileName(region_map[Len(files) + 1].key))
    /\ UNCHANGED <<data, pc, i, heap, processed_checkpoints, region_map, g,
                   text, transliterated, description, status_value>>

\* lines 113-115
PrintAll ==
    /\ pc = "write"
    /\ Len(files) = Len(region_map)
    /\ pc' = "done"
    /\ UNCHANGED <<data, i, heap, processed_checkpoints, region_map, g, files,
                   text, transliterated, description, status_value>>

Next ==
    \/ NormalizeCheckpoint
    \/ StartGrouping
    \/ GroupCheckpoint
    \/ StartWriting
    \/ WriteRegion
    \/ PrintAll

---------------------------------------------------------------------------
(* The input documents *)

\* a dict with the key when the value is present, the empty dict otherwise
Field(key, v) == IF v = None THEN EmptyDict ELSE (key :> v[1])

\* {"title": {lang: v}} under key
Titled(key, lang, v) ==
    IF v = None THEN EmptyDict ELSE (key :> ("title" :> (lang :> v[1])))

RawCheckpoint(type, status, title, country, foreign, condition, id) ==
    Titled("checkpoint_type", "en", type)
    @@ Titled("status", "en", status)
    @@ (IF title = None THEN EmptyDict ELSE ("title" :> ("ru" :> title[1])))
    @@ Field("foreign_country", country)
    @@ Field("foreign_checkpoint", foreign)
    @@ Field("condition", condition)
    @@ Field("id", id)
    @@ [latitude |-> "51.5", longitude |-> "113.0"]


\* 'Забайкальск (авто)'
Zabaykalsk_avto ==
    <<"CYR_ZE", "cyr_a", "cyr_be", "cyr_a", "cyr_short_i", "cyr_ka", "cyr_a",
      "cyr_el", "cyr_soft", "cyr_es", "cyr_ka", " ",
      "(", "cyr_a", "cyr_ve", "cyr_te", "cyr_o", ")">>

\* '(авто)'
avto_only == <<"(", "cyr_a", "cyr_ve", "cyr_te", "cyr_o", ")">>

\* 'Елка'
Yelka == <<"CYR_IE", "cyr_el", "cyr_ka", "cyr_a">>

\* 'Маньчжурия'
Manchzhuriya ==
    <<"CYR_EM", "cyr_a", "cyr_en", "cyr_soft", "cyr_che", "cyr_zhe", "cyr_u",
      "cyr_er", "cyr_i", "cyr_ya">>

Types == {None, Some("Automobile checkpoint"), Some("Railway checkpoint")}

Statuses == {None, Some("Bilateral"), Some("Multilateral"), Some("Closed")}

\* no title, the empty title, and titles with and without a parenthetical
Titles ==
    {None, Some(<<>>), Some(Zabaykalsk_avto), Some(avto_only),
     Some(<<"cyr_soft">>), Some(Yelka)}

\* no foreign_country, an empty one, one with an iso_code, one without
Countries ==
    {None, Some(EmptyDict), Some([iso_code |-> "CN"]), Some([iso_code |-> "KZ"]),
     Some([title |-> "China"])}

ForeignNames == {Manchzhuriya, <<"cyr_hard">>}

\* no foreign_checkpoint, the name at foreign_checkpoint.title.ru, the name
\* at foreign_checkpoint.ru
ForeignCheckpoints ==
    {None}
    \cup {Some("title" :> ("ru" :> n)) : n \in ForeignNames}
    \cup {Some("ru" :> n) : n \in ForeignNames}

Conditions == {None, Some(TRUE), Some(FALSE)}

RawCheckpoints ==
    {RawCheckpoint(ty, st, ti, co, fo, cn, Some(101)) :
        ty \in Types, st \in Statuses, ti \in Titles, co \in Countries,
        fo \in ForeignCheckpoints, cn \in Conditions}

\* the checkpoints of the longer documents: what the filters and the
\* grouping read varies, and one checkpoint is the one line 92 raises on
DocCheckpoints ==
    {RawCheckpoint(tc[1], Some("Bilateral"), Some(Yelka), co, None, tc[2], Some(101)) :
        tc \in {<<Some("Automobile checkpoint"), Some(TRUE)>>,
                <<Some("Automobile checkpoint"), Some(FALSE)>>,
                <<Some("Railway checkpoint"), Some(TRUE)>>},
        co \in Countries \ {Some(EmptyDict)}}
    \cup {RawCheckpoint(Some("Automobile checkpoint"), None, None,
                        Some([iso_code |-> "CN"]), Some("ru" :> Manchzhuriya),
                        Some(TRUE), Some(101))}

MaxCheckpoints == 3

\* a document, as the sequence of its checkpoints in the order the loops of
\* lines 45-51 visit them (district by district, region by region)
Documents ==
    BoundedSeq(DocCheckpoints, MaxCheckpoints)
    \cup {<<checkpoint>> : checkpoint \in RawCheckpoints}

Init ==
    /\ pc = "normalize"
    /\ data \in Documents
    /\ i = 0
    /\ heap = <<>>
    /\ processed_checkpoints = <<>>
    /\ region_map = <<>>
    /\ g = 0
    /\ files = <<>>
    /\ IdleTranslit
    /\ IdleStatus

Spec == Init /\ [][Next]_vars

---------------------------------------------------------------------------
(* The claims about the script *)

Range(seq) == {seq[k] : k \in 1..Len(seq)}

\* every identity held by a bucket of region_map
Grouped == UNION {Range(region_map[k].value) : k \in 1..Len(region_map)}

\* the raw checkpoint is of the target type and its gate is true
RawIsTarget(c) ==
    /\ "checkpoint_type" \in DOMAIN c
    /\ c.checkpoint_type.title.en = "Automobile checkpoint"
    /\ "condition" \in DOMAIN c
    /\ c.condition = TRUE

\* C1: every record of the flat list or of a bucket comes from a raw
\* checkpoint whose type is exactly "Automobile checkpoint" and whose
\* condition is true; a checkpoint failing either test is in no output.
C1_OnlyTargetEmitted ==
    \A o \in Range(processed_checkpoints) \cup Grouped :
        /\ o \in 1..Len(data)
        /\ RawIsTarget(data[o])

C1_Witness ==
    /\ pc = "done"
    /\ Grouped # {}
    /\ \E k \in 1..Len(data) : ~IsAutomobile(data[k])
    /\ \E k \in 1..Len(data) : IsAutomobile(data[k]) /\ ~Admitted(data[k])

\* the places <<bucket, position>> of region_map that hold identity o
PlacesOf(o) ==
    {bp \in (1..Len(region_map)) \X (1..Len(data)) :
        /\ bp[2] <= Len(region_map[bp[1]].value)
        /\ region_map[bp[1]].value[bp[2]] = o}

\* C2: once the grouping loop has ended, the buckets partition the flat
\* list: every record of the list is at exactly one place of exactly one
\* bucket, and a bucket holds nothing that is not in the list.
C2_BucketsPartition ==
    pc \in {"write", "done"} =>
        /\ \A o \in Range(processed_checkpoints) : Cardinality(PlacesOf(o)) = 1
        /\ Grouped \subseteq Range(processed_checkpoints)
        /\ \A k, l \in 1..Len(region_map) :
               region_map[k].key = region_map[l].key => k = l

C2_Witness ==
    /\ pc = "done"
    /\ Len(processed_checkpoints) >= 3
    /\ Len(region_map) >= 2

\* the position of identity o in the flat list
NormalizedAt(o) ==
    CHOOSE k \in 1..Len(processed_checkpoints) : processed_checkpoints[k] = o

BucketOrderIsNormalizationOrder ==
    \A k \in 1..Len(region_map) :
        LET b == region_map[k].value
        IN  \A p, q \in 1..Len(b) :
                p < q <=> NormalizedAt(b[p]) < NormalizedAt(b[q])

IsPrefix(s, t) == Len(s) <= Len(t) /\ SubSeq(t, 1, Len(s)) = s

BucketsOnlyGrow ==
    \A k \in 1..Len(region_map) :
        /\ k <= Len(region_map')
        /\ region_map'[k].key = region_map[k].key
        /\ IsPrefix(region_map[k].value, region_map'[k].value)

\* C3: in every bucket a precedes b exactly when a was appended to the flat
\* list before b, and a step never reorders or removes what a bucket holds:
\* it only appends.
C3_BucketOrderStable ==
    [](BucketOrderIsNormalizationOrder) /\ [][BucketsOnlyGrow]_vars

C3_Witness ==
    /\ pc = "done"
    /\ \E k, l \in 1..Len(region_map) :
           /\ k # l
           /\ Len(region_map[k].value) >= 2
           /\ NormalizedAt(region_map[k].value[1]) < NormalizedAt(region_map[l].value[1])
           /\ NormalizedAt(region_map[l].value[1]) < NormalizedAt(region_map[k].value[2])

\* the raw checkpoint has no resolvable country key: no foreign_country
\* reference, or one that carries no iso_code
NoCountryKey(c) ==
    \/ "foreign_country" \notin DOMAIN c
    \/ "iso_code" \notin DOMAIN c.foreign_country

\* C4: every admitted record with no resolvable country key is in the bucket
\* "unknown"; no record is under a null key and none is dropped.
C4_UnknownBucket ==
    pc \in {"write", "done"} =>
        /\ None \notin Keys(region_map)
        /\ \A o \in Range(processed_checkpoints) :
               NoCountryKey(data[o]) =>
                   /\ Some("unknown") \in Keys(region_map)
                   /\ o \in Range(Bucket(region_map, Some("unknown")))

\* C5: a normalized record that has name_ru has a name that is a non-empty
\* string.
C5_NameNeverEmpty ==
    \A o \in DOMAIN heap :
        "name_ru" \in DOMAIN heap[o] =>
            heap[o].name # None /\ heap[o].name[1] # <<>>

\* the raw checkpoint has no local-language title: title.ru absent or empty
NoTitle(c) == "title" \notin DOMAIN c \/ c.title.ru = <<>>

\* C6: a raw checkpoint of the target type with condition true and no
\* local-language title is emitted with name null, and normalization does
\* not fail on it, whatever its other fields are.
C6_UntitledRetained ==
    /\ pc = "KeyError" => ~(RawIsTarget(data[i + 1]) /\ NoTitle(data[i + 1]))
    /\ \A k \in 1..i :
           RawIsTarget(data[k]) /\ NoTitle(data[k]) =>
               /\ k \in Range(processed_checkpoints)
               /\ heap[k].name = None

\* the foreign local-language checkpoint name of the spec's RawCheckpoint
\* shape, foreign_checkpoint.title.ru, or None
SpecForeignName(c) ==
    IF /\ "foreign_checkpoint" \in DOMAIN c
       /\ "title" \in DOMAIN c.foreign_checkpoint
    THEN Some(c.foreign_checkpoint.title.ru)
    ELSE None

\* the raw checkpoint keeps to the spec's shape: no foreign_checkpoint.ru
InSpecShape(c) ==
    "foreign_checkpoint" \in DOMAIN c => "ru" \notin DOMAIN c.foreign_checkpoint

\* 'Zabaykalsk / Manchzhuriya'
Zabaykalsk_Manchzhuriya ==
    <<"Z", "a", "b", "a", "y", "k", "a", "l", "s", "k", " ", "/", " ",
      "M", "a", "n", "c", "h", "z", "h", "u", "r", "i", "y", "a">>

\* C7: for an admitted checkpoint in the spec's shape with a local title:
\* with a foreign name, foreign_name is its transliteration and name is
\* name_en, " / ", foreign_name; without one, name is name_en.  The title
\* 'Забайкальск (авто)' with the foreign name 'Маньчжурия' has the name
\* 'Zabaykalsk / Manchzhuriya'.
C7_CompositeName ==
    \A o \in DOMAIN heap :
        LET c == data[o]
            n == heap[o]
        IN  (InSpecShape(c) /\ ~NoTitle(c)) =>
                IF SpecForeignName(c) # None
                THEN /\ "foreign_name" \in DOMAIN n
                     /\ n.foreign_name = Some(cyrillic_to_latin(SpecForeignName(c)[1]))
                     /\ n.name = Some(Composite(n.name_en[1], n.foreign_name[1]))
                     /\ (/\ c.title.ru = Zabaykalsk_avto
                         /\ SpecForeignName(c) = Some(Manchzhuriya))
                        => n.name = Some(Zabaykalsk_Manchzhuriya)
                ELSE n.name = n.name_en

=============================================================================
